---------------------------- MODULE Spec2Model ----------------------------
(***************************************************************************)
(* A state-machine model of PANOLENS.Viewer (src/src/viewer/Viewer.js):    *)
(* the pointer hit-test handlers (onMouseDown / onMouseMove / onMouseUp /  *)
(* onTap), entity resolution (getConvertedIntersect), the control list     *)
(* (enableControl / toggleNextControl) and the panorama lifecycle          *)
(* (add / setPanorama / setCameraControl).                                 *)
(*                                                                         *)
(* External collaborators are inputs: the raycaster's ordered intersection *)
(* list is chosen per event, positions of panoramas are fixed vectors.     *)
(* Objects returned by the raycaster are THREE.Object3D instances and so   *)
(* always have dispatchEvent; the `.dispatchEvent` guards of onTap are     *)
(* therefore true for every object of the model.                           *)
(***************************************************************************)
EXTENDS Integers, Sequences, FiniteSets, TLC

\* `undefined` of the source.
None == "undefined"

----------------------------------------------------------------------------
\* The objects of the scene.

\* Objects whose .type is 'panorama'.
Panoramas == {"P1", "P2"}

\* An object that can be added to the scene but is not a panorama.
NonPanoramas == {"box"}

Objects == Panoramas \cup NonPanoramas

\* Primitives that are instances of PANOLENS.Infospot (have onHover,
\* onHoverEnd and onClick).
Markers == {"spot1", "spot2"}

\* Everything the raycaster can return as intersects[i].object.
\*   pA, pB : two primitives of the same logical entity eA
\*   pC     : opaque primitive without an entity
\*   pT     : primitive with passThrough = true
\*   pU     : primitive whose entity eT has passThrough = true
Primitives == {"pA", "pB", "pC", "pT", "pU"} \cup Markers

\* object.entity (None when the primitive maps to no entity).
entityOf(p) ==
    CASE p \in {"pA", "pB"} -> "eA"
      [] p = "pU" -> "eT"
      [] OTHER -> None

\* object.passThrough
passThrough(o) == o \in {"pT", "eT"}

\* panorama.position, a THREE.Vector3 as <<x, y, z>>.
positionOf(p) == IF p = "P1" THEN <<0, 0, 0>> ELSE <<3, 0, 5>>

\* Longest intersection list the raycaster returns in the model.
MaxHits == 3

HitLists == UNION {[1..n -> Primitives] : n \in 0..MaxHits}

\* options.clickTolerance (default)
clickTolerance == 10

\* Screen coordinates of events: multiples of 5 up to 5 * MaxCoordSteps.
MaxCoordSteps == 3

Coords == {5 * k : k \in 0..MaxCoordSteps}

\* Control indexes passed to enableControl range over MinIndex..MaxIndex
\* (and undefined).
MaxIndex == 3

MinIndex == 0 - 1

----------------------------------------------------------------------------
VARIABLES
    \* Viewer fields
    panorama,             \* this.panorama
    sceneChildren,        \* this.scene.children
    enterStartListeners,  \* panoramas carrying an 'enter-start' listener of the viewer
    entering,             \* panoramas whose onEnter ran and whose 'enter-start' is still to come
    controls,             \* this.controls, indexed from 0
    control,              \* index in controls of this.control
    enabled,              \* controls[i].enabled
    cameraPosition,       \* this.camera.position
    orbitTarget,          \* this.OrbitControls.target
    options,              \* this.options (autoHideInfospot, autoHideControlBar)
    updateCallbacks,      \* this.updateCallbacks, in push order
    userMouse,            \* this.userMouse: x, y, type
    hoverObject,          \* this.hoverObject
    hoveringObject,       \* this.hoveringObject
    pressEntityObject,    \* this.pressEntityObject
    pressObject,          \* this.pressObject
    cursor,               \* this.container.style.cursor
    \* Observation of the last handler that ran
    op,                   \* its name
    arg,                  \* its argument (object, index or pointer event)
    threw,                \* TRUE iff it ended with an exception
    emitted,              \* the dispatchEvent calls it made, in order
    calls,                \* the methods of collaborators it called, in order
    upType,               \* `type` computed by onMouseUp ("click" / None)
    raycast,              \* what raycaster.intersectObjects returned to it (<<>> if not called)
    \* History
    downPos,              \* coordinates of the most recent down event
    downEntity,           \* entity resolved by the most recent down event
    lastHoverEvt,         \* per target, the last hoverenter/hoverleave dispatched on it
    toggleRun,            \* control indexes visited by the current run of toggleNextControl calls
    gesture,              \* "down" / "up": which of the two the last down-or-up event was
    hoverOpen,            \* markers whose onHover was called and whose onHoverEnd was not since
    enterBalance,         \* per panorama, its onEnter() calls minus its onLeave() calls so far
    \* Entity resolution on its own
    resolveIn,
    resolveOut

viewerVars ==
    <<panorama, sceneChildren, enterStartListeners, entering, controls, control,
      enabled, cameraPosition, orbitTarget, options>>

pointerVars ==
    <<userMouse, hoverObject, hoveringObject, pressEntityObject, pressObject, cursor>>

observeVars == <<op, arg, threw, emitted, calls, upType, raycast>>

historyVars == <<downPos, downEntity, lastHoverEvt, toggleRun, gesture, hoverOpen>>

frameVars == <<updateCallbacks>>

lifecycleVars == <<enterBalance>>

resolveVars == <<resolveIn, resolveOut>>

vars == <<viewerVars, pointerVars, observeVars, historyVars, resolveVars, frameVars, lifecycleVars>>

----------------------------------------------------------------------------
\* Helpers

Abs(n) == IF n < 0 THEN 0 - n ELSE n

When(c, s) == IF c THEN s ELSE <<>>

\* A dispatchEvent call: target.dispatchEvent({type, intersects}).
Ev(target, type) == [target |-> target, type |-> type, intersects |-> <<>>]

EvI(target, type, intersects) ==
    [target |-> target, type |-> type, intersects |-> intersects]

\* A method call on a collaborator: target.method().
Call(target, method) == [target |-> target, method |-> method]

\* Targets of entity-level events: entities and primitives standing for themselves.
Targets == Primitives \cup {"eA", "eT"}

----------------------------------------------------------------------------
\* getConvertedIntersect: the loop over intersects from index i.

RECURSIVE ConvertFrom(_, _)
ConvertFrom(intersects, i) ==
    IF i > Len(intersects) THEN None
    ELSE LET object == intersects[i]
         IN IF ~passThrough(object)
            THEN IF entityOf(object) # None /\ passThrough(entityOf(object))
                   THEN ConvertFrom(intersects, i + 1)
                 ELSE IF entityOf(object) # None /\ ~passThrough(entityOf(object))
                   THEN entityOf(object)
                 ELSE object
            ELSE ConvertFrom(intersects, i + 1)

getConvertedIntersect_NoEntitySkip(intersects) ==
    LET open == {i \in 1..Len(intersects) : ~passThrough(intersects[i])}
    IN IF open = {} THEN None
       ELSE LET i == CHOOSE j \in open : \A k \in open : j <= k
            IN IF entityOf(intersects[i]) # None THEN entityOf(intersects[i])
               ELSE intersects[i]

getConvertedIntersect(intersects) == ConvertFrom(intersects, 1)

----------------------------------------------------------------------------
\* The state after `new PANOLENS.Viewer( options )`.

\* The two auto-hide options; the others do not reach the modelled handlers.
OptionSets == [autoHideInfospot : BOOLEAN, autoHideControlBar : BOOLEAN]

InitViewer ==
    /\ panorama = None
    /\ sceneChildren = {}
    /\ enterStartListeners = {}
    /\ entering = {}
    /\ controls = (0 :> "orbit") @@ (1 :> "device-orientation")
    /\ control = 0
    /\ enabled = (0 :> TRUE) @@ (1 :> TRUE)
    /\ cameraPosition = <<0, 0, 0>>
    /\ orbitTarget = <<0, 0, 0>>
    /\ userMouse = [x |-> 0, y |-> 0, type |-> None]
    /\ hoverObject = None
    /\ hoveringObject = None
    /\ pressEntityObject = None
    /\ pressObject = None
    /\ cursor = None
    /\ op = "new"
    /\ arg = None
    /\ threw = FALSE
    /\ emitted = <<>>
    /\ calls = <<>>
    /\ upType = None
    /\ raycast = <<>>
    /\ downPos = [set |-> FALSE, x |-> 0, y |-> 0]
    /\ downEntity = None
    /\ lastHoverEvt = [t \in Targets |-> None]
    /\ toggleRun = <<>>
    /\ gesture = None
    /\ hoverOpen = {}
    /\ enterBalance = [p \in Panoramas |-> 0]
    /\ updateCallbacks = <<>>
    /\ resolveIn = <<>>
    /\ resolveOut = None

Init ==
    /\ InitViewer
    /\ options \in OptionSets

\* The default options: autoHideInfospot true, autoHideControlBar false.
DefaultOptions == [autoHideInfospot |-> TRUE, autoHideControlBar |-> FALSE]

InitDefault ==
    /\ InitViewer
    /\ options = DefaultOptions

----------------------------------------------------------------------------
\* Scene transitions: add, setPanorama, the 'enter-start' listener.

Count == Cardinality(DOMAIN controls)

\* setPanorama's two hook calls, in the order the code makes them.
EnterLeaveCalls_NoLeave(old, pano) == <<Call(pano, "onEnter")>>

EnterLeaveCalls_EnterFirst(old, pano) ==
    <<Call(pano, "onEnter")>> \o When(old # None, <<Call(old, "onLeave")>>)

EnterLeaveCalls(old, pano) ==
    When(old # None, <<Call(old, "onLeave")>>) \o <<Call(pano, "onEnter")>>

\* Per panorama, onEnter() calls minus onLeave() calls once `log` is made.
BalanceAfter(log) ==
    [p \in Panoramas |->
        enterBalance[p]
        + Cardinality({i \in DOMAIN log : log[i] = Call(p, "onEnter")})
        - Cardinality({i \in DOMAIN log : log[i] = Call(p, "onLeave")})]

\* The body of setPanorama( pano ).
SetPanoramaBody(pano) ==
    IF pano \in Panoramas
    THEN /\ calls' = EnterLeaveCalls(panorama, pano)
         /\ panorama' = pano
         /\ entering' = entering \cup {pano}
         /\ enterBalance' = BalanceAfter(EnterLeaveCalls(panorama, pano))
    ELSE /\ calls' = <<>>
         /\ UNCHANGED <<panorama, entering, enterBalance>>

\* add's test for making the object the current panorama.
AddAssigns_AnyPanorama(object) == object \in Panoramas

AddAssigns(object) == object \in Panoramas /\ panorama = None

Add(object) ==
    /\ sceneChildren' = sceneChildren \cup {object}
    /\ enterStartListeners' =
          IF object \in Panoramas THEN enterStartListeners \cup {object}
          ELSE enterStartListeners
    /\ IF AddAssigns(object)
       THEN SetPanoramaBody(object)
       ELSE calls' = <<>> /\ UNCHANGED <<panorama, entering, enterBalance>>
    /\ op' = "add" /\ arg' = object /\ threw' = FALSE /\ emitted' = <<>>
    /\ raycast' = <<>>
    /\ UNCHANGED <<controls, control, enabled, cameraPosition, orbitTarget, options,
                   upType, pointerVars, historyVars, resolveVars, frameVars>>

SetPanorama(pano) ==
    /\ SetPanoramaBody(pano)
    /\ op' = "setPanorama" /\ arg' = pano /\ threw' = FALSE /\ emitted' = <<>>
    /\ raycast' = <<>>
    /\ UNCHANGED <<sceneChildren, enterStartListeners, controls, control, enabled,
                   cameraPosition, orbitTarget, options, upType, pointerVars,
                   historyVars, resolveVars, frameVars>>

\* camera.position.copy( p ); camera.position.z += 1
OffsetZ(p) == <<p[1], p[2], p[3] + 1>>

\* A panorama whose onEnter ran dispatches 'enter-start'; the listener
\* registered by addPanoramaEventListener is setCameraControl.
PanoramaEnterStart(pano) ==
    /\ pano \in entering
    /\ entering' = entering \ {pano}
    /\ IF pano \in enterStartListeners
       THEN /\ cameraPosition' = OffsetZ(positionOf(panorama))
            /\ orbitTarget' = positionOf(panorama)
       ELSE UNCHANGED <<cameraPosition, orbitTarget>>
    /\ op' = "enter-start" /\ arg' = pano /\ threw' = FALSE
    /\ emitted' = <<>> /\ calls' = <<>> /\ raycast' = <<>>
    /\ UNCHANGED <<panorama, sceneChildren, enterStartListeners, controls, control,
                   enabled, options, upType, pointerVars, historyVars, resolveVars, frameVars, lifecycleVars>>

----------------------------------------------------------------------------
\* The control list: getNextControlIndex, enableControl, toggleNextControl.

\* An index argument: a number or undefined.
IndexArgs ==
    {[defined |-> TRUE, value |-> v] : v \in MinIndex..MaxIndex}
        \cup {[defined |-> FALSE, value |-> 0]}

getNextControlIndex_NoWrap ==
    IF control + 1 >= Count THEN control ELSE control + 1

getNextControlIndex ==
    IF control + 1 >= Count THEN 0 ELSE control + 1

\* index = ( index >= 0 && index < this.controls.length ) ? index : 0
ClampIndex(index) ==
    IF index.defined /\ index.value >= 0 /\ index.value < Count THEN index.value
    ELSE 0

\* The body of enableControl once the index is a number.  Reading
\* this.panorama.position with no panorama throws a TypeError after the
\* control has been switched.
EnableControlBody(index) ==
    LET i == ClampIndex(index)
    IN /\ enabled' = [[enabled EXCEPT ![control] = FALSE] EXCEPT ![i] = TRUE]
       /\ control' = i
       /\ IF controls[i] \in {"orbit", "device-orientation"}
          THEN IF panorama = None
               THEN threw' = TRUE /\ UNCHANGED cameraPosition
               ELSE /\ threw' = FALSE
                    /\ cameraPosition' =
                          IF controls[i] = "orbit" THEN OffsetZ(positionOf(panorama))
                          ELSE positionOf(panorama)
          ELSE threw' = FALSE /\ UNCHANGED cameraPosition

EnableControl(index) ==
    /\ EnableControlBody(index)
    /\ toggleRun' = <<>>
    /\ op' = "enableControl" /\ arg' = index /\ emitted' = <<>> /\ calls' = <<>>
    /\ raycast' = <<>>
    /\ UNCHANGED <<panorama, sceneChildren, enterStartListeners, entering, controls,
                   orbitTarget, options, upType, pointerVars, downPos, downEntity,
                   lastHoverEvt, gesture, hoverOpen, resolveVars, frameVars, lifecycleVars>>

ToggleNextControl ==
    /\ EnableControlBody([defined |-> TRUE, value |-> getNextControlIndex])
    /\ toggleRun' =
          IF panorama = None THEN <<>>
          ELSE IF toggleRun = <<>> \/ Len(toggleRun) > Count
          THEN <<control, control'>>
          ELSE Append(toggleRun, control')
    /\ op' = "toggleNextControl" /\ arg' = None /\ emitted' = <<>> /\ calls' = <<>>
    /\ raycast' = <<>>
    /\ UNCHANGED <<panorama, sceneChildren, enterStartListeners, entering, controls,
                   orbitTarget, options, upType, pointerVars, downPos, downEntity,
                   lastHoverEvt, gesture, hoverOpen, resolveVars, frameVars, lifecycleVars>>

NextScene ==
    \/ \E object \in Objects : Add(object)
    \/ \E pano \in Objects : SetPanorama(pano)
    \/ \E pano \in Panoramas : PanoramaEnterStart(pano)
    \/ \E index \in IndexArgs : EnableControl(index)
    \/ ToggleNextControl

SpecScene == Init /\ [][NextScene]_vars

----------------------------------------------------------------------------
\* Pointer events.  An event carries its kind (a MouseEvent has clientX and
\* clientY; a TouchEvent has them in touches[0] / changedTouches[0] only),
\* its coordinates and whether its target is the canvas ('panolens-canvas').
\* The second input of a handler is the intersection list, nearest first,
\* that raycaster.intersectObjects returns if the handler calls it.

EventsOver(kinds, xs, ys) ==
    [kind : kinds, x : xs, y : ys, onCanvas : BOOLEAN]

\* if ( !this.panorama ) { return; }
TapShortCircuit_Never == FALSE

TapShortCircuit == panorama = None

\* The condition under which onTap sends hoverleave and clears hoverObject.
HoverLeaves_OnlyOnOtherEntity(hover, intersects, entity) ==
    hover # None /\ Len(intersects) > 0 /\ hover # entity

HoverLeaves(hover, intersects, entity) ==
    \/ hover # None /\ Len(intersects) > 0 /\ hover # entity
    \/ hover # None /\ Len(intersects) = 0

\* A press reference after the mouseup block of onTap: cleared on every
\* mouseup, whether or not the pressstop event was sent.
PressAfterUp_OnlyOnMatch(up, press, matched) ==
    IF up /\ matched THEN None ELSE press

PressAfterUp(up, press, matched) == IF up THEN None ELSE press

\* The test of the pressstart-entity and pressstart blocks of onTap, inside
\* the block of a resolved entity: only a mousedown starts a press.
PressStarts_OnAnyEvent(inside, mtype, press, target) ==
    inside /\ press # target

PressStarts(inside, mtype, press, target) ==
    inside /\ mtype = "mousedown" /\ press # target

\* The click branch of onTap: the events it dispatches, in order.
ClickDispatch_PrimitiveFirst(pano, intersects, entity, intersect) ==
    <<EvI(pano, "click", intersects)>>
    \o When(intersect # None, <<Ev(intersect, "click")>>)
    \o When(entity # None, <<Ev(entity, "click-entity")>>)

ClickDispatch(pano, intersects, entity, intersect) ==
    <<EvI(pano, "click", intersects)>>
    \o When(entity # None, <<Ev(entity, "click-entity")>>)
    \o When(intersect # None, <<Ev(intersect, "click")>>)

\* onTap( event, type ) with this.userMouse.type = mtype: the new values of
\* the fields it assigns, the events it dispatches, the collaborator methods
\* it calls and its return value.
OnTap(intersects, type, mtype) ==
    IF TapShortCircuit
    THEN [hoverObject |-> hoverObject, hoveringObject |-> hoveringObject,
          pressEntityObject |-> pressEntityObject, pressObject |-> pressObject,
          cursor |-> cursor, emitted |-> <<>>, calls |-> <<>>, raycast |-> <<>>,
          ret |-> FALSE]
    ELSE
    LET intersect_entity == getConvertedIntersect(intersects)
        intersect == IF Len(intersects) > 0 THEN intersects[1] ELSE None
        up == mtype = "mouseup"
        click == type = "click"
        \* mouseup: pressstop-entity / pressstop, then clear
        stopE == up /\ intersect_entity # None /\ pressEntityObject = intersect_entity
        pe1 == PressAfterUp(up, pressEntityObject, stopE)
        stopP == up /\ intersect # None /\ pressObject = intersect
        po1 == PressAfterUp(up, pressObject, stopP)
        \* hover branch
        leave == ~click /\ HoverLeaves(hoverObject, intersects, intersect_entity)
        h1 == IF leave THEN None ELSE hoverObject
        inside == ~click /\ intersect_entity # None /\ Len(intersects) > 0
        enter == inside /\ h1 # intersect_entity
        h2 == IF enter THEN intersect_entity ELSE h1
        startE == PressStarts(inside, mtype, pe1, intersect_entity)
        pe2 == IF startE THEN intersect_entity ELSE pe1
        startP == PressStarts(inside, mtype, po1, intersect)
        po2 == IF startP THEN intersect ELSE po1
        moveE == inside /\ mtype = "mousemove" /\ pe2 # None
        moveP == inside /\ mtype = "mousemove" /\ po2 # None
        \* Infospot
        onMarker == Len(intersects) > 0 /\ intersects[1] \in Markers
    IN [hoverObject |-> h2,
        pressEntityObject |-> pe2,
        pressObject |-> po2,
        hoveringObject |-> IF onMarker THEN intersect ELSE None,
        cursor |-> IF onMarker THEN "pointer" ELSE "default",
        emitted |->
            When(stopE, <<Ev(pressEntityObject, "pressstop-entity")>>)
            \o When(stopP, <<Ev(pressObject, "pressstop")>>)
            \o (IF click
                THEN ClickDispatch(panorama, intersects, intersect_entity, intersect)
                ELSE <<EvI(panorama, "hover", intersects)>>
                     \o When(leave, <<Ev(hoverObject, "hoverleave")>>)
                     \o When(enter, <<Ev(intersect_entity, "hoverenter")>>)
                     \o When(startE, <<Ev(intersect_entity, "pressstart-entity")>>)
                     \o When(startP, <<Ev(intersect, "pressstart")>>)
                     \o When(moveE, <<Ev(pe2, "pressmove-entity")>>)
                     \o When(moveP, <<Ev(po2, "pressmove")>>)),
        calls |->
            IF onMarker
            THEN <<Call(intersect, "onHover")>>
                 \o When(click, <<Call(intersect, "onClick")>>)
            ELSE When(hoveringObject # None, <<Call(hoveringObject, "onHoverEnd")>>),
        raycast |-> intersects,
        ret |-> onMarker /\ click]

\* The last hoverenter / hoverleave dispatched on each target, after `log`.
IsHoverEvOn(ev, t) == ev.target = t /\ ev.type \in {"hoverenter", "hoverleave"}

HoverEvsOn(log, t) ==
    LET Test(ev) == IsHoverEvOn(ev, t) IN SelectSeq(log, Test)

LastHoverAfter(log) ==
    [t \in Targets |->
        LET s == HoverEvsOn(log, t)
        IN IF s = <<>> THEN lastHoverEvt[t] ELSE s[Len(s)].type]

\* The markers left with an onHover not yet followed by onHoverEnd, after `log`.
RECURSIVE HoverOpenAfter(_, _)
HoverOpenAfter(open, log) ==
    IF log = <<>> THEN open
    ELSE LET c == Head(log)
         IN HoverOpenAfter(
                CASE c.method = "onHover" -> open \cup {c.target}
                  [] c.method = "onHoverEnd" -> open \ {c.target}
                  [] OTHER -> open,
                Tail(log))

ApplyTap(tap) ==
    /\ hoverObject' = tap.hoverObject
    /\ hoveringObject' = tap.hoveringObject
    /\ pressEntityObject' = tap.pressEntityObject
    /\ pressObject' = tap.pressObject
    /\ cursor' = tap.cursor
    /\ emitted' = tap.emitted
    /\ raycast' = tap.raycast
    /\ lastHoverEvt' = LastHoverAfter(tap.emitted)
    /\ hoverOpen' = HoverOpenAfter(hoverOpen, tap.calls)

NoTap ==
    /\ emitted' = <<>>
    /\ calls' = <<>>
    /\ raycast' = <<>>
    /\ UNCHANGED <<hoverObject, hoveringObject, pressEntityObject, pressObject,
                   cursor, lastHoverEvt, hoverOpen>>

\* ( event.clientX ) ? event.clientX : event.touches[0].clientX
\* A MouseEvent has no touches: with a coordinate of 0 the expression reads
\* touches[0] of undefined and throws a TypeError.
DownCoordThrows(kind, c) == kind = "mouse" /\ c = 0

OnMouseDown(e, intersects) ==
    /\ op' = "down" /\ arg' = e /\ upType' = None
    /\ downPos' = [set |-> TRUE, x |-> e.x, y |-> e.y]
    /\ IF DownCoordThrows(e.kind, e.x)
       THEN /\ threw' = TRUE
            /\ downEntity' = None
            /\ NoTap
            /\ UNCHANGED userMouse
       ELSE IF DownCoordThrows(e.kind, e.y)
       THEN /\ threw' = TRUE
            /\ downEntity' = None
            /\ NoTap
            /\ userMouse' = [userMouse EXCEPT !.x = e.x]
       ELSE LET tap == OnTap(intersects, None, "mousedown")
            IN /\ threw' = FALSE
               /\ userMouse' = [x |-> e.x, y |-> e.y, type |-> "mousedown"]
               /\ downEntity' =
                     IF TapShortCircuit THEN None ELSE getConvertedIntersect(intersects)
               /\ ApplyTap(tap)
               /\ calls' = tap.calls
    /\ gesture' = "down"
    /\ UNCHANGED <<viewerVars, toggleRun, resolveVars, frameVars, lifecycleVars>>

OnMouseMove(e, intersects) ==
    LET tap == OnTap(intersects, None, "mousemove")
    IN /\ op' = "move" /\ arg' = e /\ upType' = None /\ threw' = FALSE
       /\ userMouse' = [userMouse EXCEPT !.type = "mousemove"]
       /\ ApplyTap(tap)
       /\ calls' = tap.calls
       /\ UNCHANGED <<viewerVars, downPos, downEntity, toggleRun, gesture,
                       resolveVars, frameVars, lifecycleVars>>

\* The comparison of onMouseUp: each bound is inclusive.
WithinTolerance(start, release) ==
    start >= release - clickTolerance /\ start <= release + clickTolerance

\* `type` of onMouseUp.  clientX / clientY are undefined on a TouchEvent and
\* changedTouches is undefined on a MouseEvent, so one disjunct applies to
\* each kind.
UpType(e) ==
    IF \/ /\ e.kind = "mouse"
          /\ WithinTolerance(userMouse.x, e.x)
          /\ WithinTolerance(userMouse.y, e.y)
       \/ /\ e.kind = "touch"
          /\ WithinTolerance(userMouse.x, e.x)
          /\ WithinTolerance(userMouse.y, e.y)
    THEN "click" ELSE None

OnMouseUp(e, intersects) ==
    /\ op' = "up" /\ arg' = e /\ upType' = UpType(e)
    /\ IF ~e.onCanvas
       THEN /\ threw' = FALSE
            /\ userMouse' = [userMouse EXCEPT !.type = "mouseup"]
            /\ NoTap
       ELSE LET tap == OnTap(intersects, UpType(e), "mouseup")
                click == UpType(e) = "click"
                toggles == ~tap.ret /\ click /\ options.autoHideInfospot /\ panorama # None
            IN /\ userMouse' = [userMouse EXCEPT !.type = "none"]
               /\ ApplyTap(tap)
               /\ calls' = tap.calls
                     \o When(toggles, <<Call(panorama, "toggleChildrenVisibility")>>)
               \* toggleControlBar is not a variable in scope: ReferenceError
               /\ threw' = (~tap.ret /\ click /\ options.autoHideControlBar)
    /\ gesture' = "up"
    /\ UNCHANGED <<viewerVars, downPos, downEntity, toggleRun, resolveVars, frameVars, lifecycleVars>>

----------------------------------------------------------------------------
\* The pointer state machine with the scene operations that give it a panorama.

\* Coordinates of the gestures: a release at the other x is outside the tolerance.
GestureXs == {5, 20}

GestureYs == {5}

GestureEvents == EventsOver({"mouse"}, GestureXs, GestureYs)

\* What the raycaster returns in the pointer specification: nothing, two
\* primitives of one entity, a primitive without entity, a pass-through
\* primitive alone and in front of an opaque one, and a marker.
TapHitLists ==
    {<<>>, <<"pA">>, <<"pB">>, <<"pC">>, <<"pT">>, <<"pT", "pA">>, <<"spot1">>}

\* mousemove is the only move listener; onMouseMove does not read coordinates.
MoveEvents == EventsOver({"mouse"}, {5}, {5})

Next ==
    \/ \E object \in {"P1"} : Add(object)
    \/ \E e \in GestureEvents, intersects \in TapHitLists : OnMouseDown(e, intersects)
    \/ \E e \in MoveEvents, intersects \in TapHitLists : OnMouseMove(e, intersects)
    \/ \E e \in GestureEvents, intersects \in TapHitLists : OnMouseUp(e, intersects)

Spec == InitDefault /\ [][Next]_vars

----------------------------------------------------------------------------
\* Click classification: every coordinate, both kinds of event, few targets.

\* y coordinates of the classification specification.
ClickYs == {0, 5, 15}

ClickEvents == {e \in EventsOver({"mouse", "touch"}, Coords, ClickYs) : e.onCanvas}

ClickHitLists == {<<>>, <<"pA">>}

NextClick ==
    \/ \E object \in {"P1"} : Add(object)
    \/ \E e \in ClickEvents, intersects \in ClickHitLists : OnMouseDown(e, intersects)
    \/ \E e \in MoveEvents, intersects \in ClickHitLists : OnMouseMove(e, intersects)
    \/ \E e \in ClickEvents, intersects \in ClickHitLists : OnMouseUp(e, intersects)

SpecClick == InitDefault /\ [][NextClick]_vars

----------------------------------------------------------------------------
\* Entity resolution applied to every intersection list up to MaxHits.

Resolve(intersects) ==
    /\ resolveIn' = intersects
    /\ resolveOut' = getConvertedIntersect(intersects)
    /\ UNCHANGED <<viewerVars, pointerVars, observeVars, historyVars, frameVars, lifecycleVars>>

NextResolve == \E intersects \in HitLists : Resolve(intersects)

SpecResolve == InitDefault /\ [][NextResolve]_vars

----------------------------------------------------------------------------
\* Markers: both markers under the pointer, every setting of the auto-hide
\* options, events on the canvas.

MarkerEvents == {e \in GestureEvents : e.onCanvas}

MarkerMoveEvents == {e \in MoveEvents : e.onCanvas}

MarkerHitLists == {<<>>, <<"pA">>, <<"spot1">>, <<"spot2">>, <<"spot1", "spot2">>}

NextMarkers ==
    \/ \E object \in {"P1"} : Add(object)
    \/ \E e \in MarkerEvents, intersects \in MarkerHitLists : OnMouseDown(e, intersects)
    \/ \E e \in MarkerMoveEvents, intersects \in MarkerHitLists : OnMouseMove(e, intersects)
    \/ \E e \in MarkerEvents, intersects \in MarkerHitLists : OnMouseUp(e, intersects)

SpecMarkers == Init /\ [][NextMarkers]_vars

----------------------------------------------------------------------------
\* The frame loop: addUpdateCallback, removeUpdateCallback, render.

\* Functions registered as per-frame callbacks.
Callbacks == {"f", "g", "h"}

\* Longest updateCallbacks list of the model.
MaxCallbacks == 3

\* What each callback does when it is called: nothing (None) or
\* viewer.removeUpdateCallback of a callback, itself or another.
Behaviours == [Callbacks -> Callbacks \cup {None}]

\* The inputs of one tick: what the callbacks do, and whether the VR manager
\* is in VR mode.
Ticks == [does : Behaviours, vr : BOOLEAN]

\* index = list.indexOf( fn ); if ( index >= 0 ) list.splice( index, 1 )
RemoveFirst(list, fn) ==
    LET at == {i \in DOMAIN list : list[i] = fn}
    IN IF at = {} THEN list
       ELSE LET index == CHOOSE i \in at : \A j \in at : i <= j
            IN SubSeq(list, 1, index - 1) \o SubSeq(list, index + 1, Len(list))

AddUpdateCallback(fn) ==
    /\ Len(updateCallbacks) < MaxCallbacks
    /\ updateCallbacks' = IF fn # None THEN Append(updateCallbacks, fn) ELSE updateCallbacks
    /\ op' = "addUpdateCallback" /\ arg' = fn /\ threw' = FALSE
    /\ emitted' = <<>> /\ calls' = <<>> /\ raycast' = <<>>
    /\ UNCHANGED <<viewerVars, upType, pointerVars, historyVars, resolveVars, lifecycleVars>>

RemoveUpdateCallback(fn) ==
    /\ updateCallbacks' = IF fn # None THEN RemoveFirst(updateCallbacks, fn) ELSE updateCallbacks
    /\ op' = "removeUpdateCallback" /\ arg' = fn /\ threw' = FALSE
    /\ emitted' = <<>> /\ calls' = <<>> /\ raycast' = <<>>
    /\ UNCHANGED <<viewerVars, upType, pointerVars, historyVars, resolveVars, lifecycleVars>>

\* updateCallbacks.forEach( callback => callback() ): Array.prototype.forEach
\* reads the length once, then visits the indexes below it in order, reading
\* the array as it is when each index is reached and skipping an index the
\* array no longer has.  k is the 1-based index, log the calls made so far.
RECURSIVE ForEachFrom(_, _, _, _, _)
ForEachFrom(list, k, len, does, log) ==
    IF k > len THEN [list |-> list, log |-> log]
    ELSE IF k > Len(list) THEN ForEachFrom(list, k + 1, len, does, log)
    ELSE LET callback == list[k]
             after == IF does[callback] = None THEN list
                      ELSE RemoveFirst(list, does[callback])
         IN ForEachFrom(after, k + 1, len, does, Append(log, Call(callback, "call")))

\* render()
Render(tick) ==
    LET run == ForEachFrom(updateCallbacks, 1, Len(updateCallbacks), tick.does, <<>>)
    IN /\ updateCallbacks' = run.list
       /\ calls' = <<Call("TWEEN", "update")>>
                   \o run.log
                   \o <<Call(controls[control], "update")>>
                   \o When(tick.vr, <<Call("VRControls", "update")>>)
                   \o <<Call("VRManager", "render")>>
       /\ op' = "render" /\ arg' = tick /\ threw' = FALSE
       /\ emitted' = <<>> /\ raycast' = <<>>
       /\ UNCHANGED <<viewerVars, upType, pointerVars, historyVars, resolveVars, lifecycleVars>>

NextFrame ==
    \/ \E fn \in Callbacks \cup {None} : AddUpdateCallback(fn)
    \/ \E fn \in Callbacks \cup {None} : RemoveUpdateCallback(fn)
    \/ \E tick \in Ticks : Render(tick)

SpecFrame == InitDefault /\ [][NextFrame]_vars

----------------------------------------------------------------------------
\* Properties

PointerOps == {"down", "move", "up"}

\* The last handler was a pointer handler that reached the hit-test of onTap
\* (it then always dispatches 'click' or 'hover' on the panorama).
Tapped == op \in PointerOps /\ emitted # <<>>

\* The entity the last handler resolved (None if it did not run the hit-test).
Resolved == IF Tapped THEN getConvertedIntersect(raycast) ELSE None

EventsOfType(log, type) == {i \in DOMAIN log : log[i].type = type}

\* C1 as claimed: immediately after every `up` event, whatever its target
\* element and whatever is under the pointer, the press entity and the press
\* primitive are both empty.
C1_PressEmptyAfterUp ==
    op = "up" => pressEntityObject = None /\ pressObject = None

\* C1 amended: immediately after every `up` event whose target element is
\* the canvas, whatever is under the pointer, the press entity and the press
\* primitive are both empty.
C1_PressEmptyAfterCanvasUp ==
    op = "up" /\ arg.onCanvas => pressEntityObject = None /\ pressObject = None

\* C1 witness: a press set by a `down` on an entity is released on the
\* canvas over something else.
C1_Witness ==
    /\ op = "up"
    /\ arg.onCanvas
    /\ downEntity # None
    /\ Resolved # downEntity
    /\ pressEntityObject = None
    /\ pressObject = None

\* C2: pressstop-entity is dispatched during an `up` if and only if the
\* entity resolved at that `up` is the entity resolved at the most recent
\* preceding `down`, and it is dispatched on that entity; never when that
\* `down` resolved no entity.
C2_PressStopIffSameEntity ==
    op = "up" =>
        /\ EventsOfType(emitted, "pressstop-entity") # {}
              <=> (Resolved # None /\ Resolved = downEntity)
        /\ \A i \in EventsOfType(emitted, "pressstop-entity") :
              emitted[i].target = downEntity

\* hoverenter and hoverleave on one target alternate, continuing from the
\* last one dispatched on it (None: none yet, so hoverenter comes first).
Alternates(last, s) ==
    \A k \in DOMAIN s :
        s[k].type = IF (IF k = 1 THEN last ELSE s[k - 1].type) = "hoverenter"
                    THEN "hoverleave" ELSE "hoverenter"

HoverLeavesOn(log, t) ==
    {i \in DOMAIN log : log[i].type = "hoverleave" /\ log[i].target = t}

\* The parts of C3 that speak of one event: alternation per target, no
\* second hoverenter while the target stays the same, hoverleave before
\* hoverenter.
C3_StepAlternates ==
    /\ \A t \in Targets : Alternates(lastHoverEvt[t], HoverEvsOn(emitted', t))
    /\ Resolved' # None /\ Resolved' = hoverObject =>
          EventsOfType(emitted', "hoverenter") = {}
    /\ \A i \in EventsOfType(emitted', "hoverenter"),
          j \in EventsOfType(emitted', "hoverleave") : j < i

\* Leaving the hover entity (to another entity or to nothing) sends exactly
\* one hoverleave on it.
C3_StepLeaves ==
    hoverObject # None /\ Resolved' # hoverObject =>
        /\ Cardinality(HoverLeavesOn(emitted', hoverObject)) = 1
        /\ hoverObject' # hoverObject

\* C3 as claimed: over any sequence of processed pointer events hoverenter
\* and hoverleave strictly alternate on every entity starting with
\* hoverenter, and every processed event that leaves the hover entity
\* dispatches exactly one hoverleave on it, before the hoverenter on the new
\* entity.
C3_HoverAlternatesEveryEvent ==
    [][Tapped' => C3_StepAlternates /\ C3_StepLeaves]_vars

\* C3 amended: the same, for the processed events that are not classified as
\* click; an `up` classified as click dispatches no hover event and leaves
\* the hover entity as it is.
C3_HoverAlternatesOutsideClick ==
    [][Tapped' =>
         /\ C3_StepAlternates
         /\ IF op' = "up" /\ upType' = "click"
            THEN /\ EventsOfType(emitted', "hoverenter") = {}
                 /\ EventsOfType(emitted', "hoverleave") = {}
                 /\ hoverObject' = hoverObject
            ELSE C3_StepLeaves]_vars

\* C3 witness: one event moved the target from one entity to another and
\* sent hoverleave on the old one before hoverenter on the new one.
C3_Witness ==
    /\ Tapped
    /\ \E i, j \in DOMAIN emitted :
          /\ i < j
          /\ emitted[i].type = "hoverleave"
          /\ emitted[j].type = "hoverenter"
          /\ emitted[i].target # emitted[j].target

\* C4: an `up` after a `down` is classified as click iff the release differs
\* from the down coordinates by less than the tolerance on both axes, for
\* every down position including coordinate 0 and for mouse and touch.
C4_ClickIffWithinTolerance ==
    op = "up" /\ downPos.set =>
        (upType = "click"
            <=> /\ Abs(arg.x - downPos.x) < clickTolerance
                /\ Abs(arg.y - downPos.y) < clickTolerance)

\* The same with the tolerance itself counted as within it: it still fails,
\* after a mouse down with a coordinate of 0.
C4_ClickIffAtMostTolerance ==
    op = "up" /\ downPos.set =>
        (upType = "click"
            <=> /\ Abs(arg.x - downPos.x) <= clickTolerance
                /\ Abs(arg.y - downPos.y) <= clickTolerance)

\* An intersection that resolution skips, and the target of one it does not.
Skipped(object) ==
    \/ passThrough(object)
    \/ entityOf(object) # None /\ passThrough(entityOf(object))

TargetOf(object) == IF entityOf(object) # None THEN entityOf(object) ELSE object

FirstTarget(intersects) ==
    LET kept == {i \in DOMAIN intersects : ~Skipped(intersects[i])}
    IN IF kept = {} THEN None
       ELSE TargetOf(intersects[CHOOSE i \in kept : \A j \in kept : i <= j])

\* C5: getConvertedIntersect returns the target of the first intersection
\* that is not skipped (the entity if the primitive has one, else the
\* primitive), none if there is no such intersection; a pass-through nearest
\* primitive followed by an opaque primitive without entity yields the latter.
C5_ResolvesFirstOpaque ==
    /\ resolveOut = FirstTarget(resolveIn)
    /\ (/\ Len(resolveIn) >= 2
        /\ passThrough(resolveIn[1])
        /\ ~passThrough(resolveIn[2])
        /\ entityOf(resolveIn[2]) = None) => resolveOut = resolveIn[2]

\* C5 witness: the pass-through primitive in front of the primitive without entity.
C5_Witness == resolveIn = <<"pT", "pC">> /\ resolveOut = "pC"

\* C6: an accepted setPanorama(P) calls onLeave of the panorama that was
\* current (if there was one) strictly before onEnter of P, calls nothing
\* else, always calls onEnter of P, and makes P current.
C6_LeaveBeforeEnter ==
    [][op' = "setPanorama" /\ arg' \in Panoramas =>
         /\ panorama' = arg'
         /\ Len(calls') = (IF panorama = None THEN 1 ELSE 2)
         /\ calls'[Len(calls')] = Call(arg', "onEnter")
         /\ panorama # None => calls'[1] = Call(panorama, "onLeave")]_vars

\* C6 witness: setPanorama(P2) while P1 was current.
C6_Witness ==
    /\ op = "setPanorama"
    /\ panorama = "P2"
    /\ calls = <<Call("P1", "onLeave"), Call("P2", "onEnter")>>

\* C7: with a current panorama toggleNextControl moves the active scheme
\* from index i to (i + 1) mod count and never changes the scheme list;
\* count consecutive calls from index 0 visit 1, ..., count - 1, 0.
C7_CyclesModCount ==
    /\ [][panorama # None /\ op' = "toggleNextControl" =>
            /\ control' = (control + 1) % Count
            /\ controls' = controls]_vars
    /\ [](Len(toggleRun) = Count + 1 /\ toggleRun[1] = 0 =>
            \A k \in 1..Count : toggleRun[k + 1] = k % Count)

\* C7 witness: a full cycle from index 0 back to index 0.
C7_Witness ==
    /\ op = "toggleNextControl"
    /\ Len(toggleRun) = Count + 1
    /\ toggleRun[1] = 0
    /\ control = 0

\* C8: add(object) makes the object current and calls its onEnter exactly
\* when it is a panorama and no panorama is current; otherwise the current
\* panorama is unchanged and no lifecycle hook is called.
C8_AddAssignsFirstPanorama ==
    [][op' = "add" =>
         IF arg' \in Panoramas /\ panorama = None
         THEN panorama' = arg' /\ calls' = <<Call(arg', "onEnter")>>
         ELSE panorama' = panorama /\ calls' = <<>>]_vars

\* C8 witness: a second panorama added while the first is current.
C8_Witness ==
    /\ op = "add"
    /\ arg = "P2"
    /\ panorama = "P1"
    /\ calls = <<>>

\* The index enableControl is claimed to make active.
ClaimedIndex(index) ==
    IF index.defined /\ index.value \in 0..(Count - 1) THEN index.value ELSE 0

\* C9: in every reachable state, with or without a current panorama,
\* enableControl(index) completes without failing; it leaves scheme 0 active
\* for an index out of range and the requested scheme for one in range, the
\* active scheme enabled and the previously active one disabled unless it is
\* the same.
C9_EnableControlNeverFails ==
    [][op' = "enableControl" =>
         /\ ~threw'
         /\ control' = ClaimedIndex(arg')
         /\ enabled'[control']
         /\ control # control' => ~enabled'[control]]_vars

\* C10: while no panorama is current a pointer event dispatches nothing and
\* leaves the hover entity, the hovering marker, the press entity and the
\* press primitive unchanged.
C10_NoPanoramaNoEffect ==
    [][panorama = None /\ op' \in PointerOps =>
         /\ emitted' = <<>>
         /\ UNCHANGED <<hoverObject, hoveringObject, pressEntityObject, pressObject>>]_vars

\* C10 witness: a click on the canvas with no panorama.
C10_Witness ==
    /\ op = "up"
    /\ panorama = None
    /\ upType = "click"
    /\ arg.onCanvas

\* C11: a down, move or up event whose target element is not the canvas is
\* dropped: it dispatches no event on the panorama, on any entity or on any
\* primitive, and it changes none of the hover entity, the press entity and
\* the press primitive.
C11_OffCanvasDropped ==
    [][op' \in PointerOps /\ ~arg'.onCanvas =>
         /\ emitted' = <<>>
         /\ UNCHANGED <<hoverObject, pressEntityObject, pressObject>>]_vars

ClickTypes == {"click", "click-entity"}

IsClickEv(ev) == ev.type \in ClickTypes

\* The click events of a dispatch log, in order.
ClickEvs(log) == SelectSeq(log, IsClickEv)

\* C12: click events are dispatched only by an `up` classified as click;
\* such an up dispatches `click` on the current panorama with the full
\* intersection list, then `click-entity` on the resolved entity if one
\* resolved, then `click` on the nearest primitive if there is one, each of
\* the last two whether or not the other is sent, and after every
\* pressstop-entity / pressstop of the same up.
C12_ClickDispatchOrder ==
    /\ ClickEvs(emitted) # <<>> => op = "up" /\ upType = "click"
    /\ op = "up" /\ upType = "click" /\ Tapped =>
         /\ ClickEvs(emitted) =
               <<EvI(panorama, "click", raycast)>>
               \o When(Resolved # None, <<Ev(Resolved, "click-entity")>>)
               \o When(raycast # <<>>, <<Ev(raycast[1], "click")>>)
         /\ \A i \in EventsOfType(emitted, "pressstop-entity")
                      \cup EventsOfType(emitted, "pressstop") :
               \A j \in DOMAIN emitted : IsClickEv(emitted[j]) => i < j

\* C12 witness: a click released over the pressed primitive of an entity:
\* both pressstop events, then the three click events.
C12_Witness ==
    /\ op = "up"
    /\ upType = "click"
    /\ raycast = <<"pA">>
    /\ emitted = <<Ev("eA", "pressstop-entity"), Ev("pA", "pressstop"),
                   EvI(panorama, "click", raycast), Ev("eA", "click-entity"),
                   Ev("pA", "click")>>

\* C13: while a press entity is tracked (the latest down resolved it and no
\* up has occurred since), every processed move dispatches pressmove-entity
\* on the tracked press entity, whatever is under the pointer at that move:
\* the same entity, another entity, only pass-through objects or nothing.
C13_PressMoveWhilePressed ==
    [][/\ gesture = "down"
       /\ pressEntityObject # None
       /\ pressEntityObject = downEntity
       /\ op' = "move"
       /\ Tapped'
       => \E i \in DOMAIN emitted' :
             emitted'[i] = Ev(pressEntityObject, "pressmove-entity")]_vars

\* C14: the press primitive is tracked on the nearest intersected primitive
\* whatever entity resolution yields: every processed down whose nearest
\* primitive exists and differs from the tracked press primitive makes it
\* the press primitive and dispatches pressstart on it, also when no entity
\* resolves; an up dispatches pressstop iff the nearest primitive at the up
\* is the tracked press primitive, and then on that primitive.
C14_PressPrimitiveIndependent ==
    [][/\ op' = "down" /\ Tapped' /\ raycast' # <<>> /\ raycast'[1] # pressObject
          => /\ pressObject' = raycast'[1]
             /\ \E i \in DOMAIN emitted' : emitted'[i] = Ev(raycast'[1], "pressstart")
       /\ op' = "up" /\ Tapped'
          => /\ EventsOfType(emitted', "pressstop") # {}
                   <=> raycast' # <<>> /\ raycast'[1] = pressObject
             /\ \A i \in EventsOfType(emitted', "pressstop") :
                   emitted'[i].target = pressObject]_vars

\* C15: after enableControl(index) with a current panorama at position p,
\* if the newly active scheme is orbit the camera is at p offset by 1 along
\* z and the orbit target is p; if it is device-orientation the camera is
\* exactly at p; for any other scheme camera and orbit target are unchanged.
C15_EnableControlPose ==
    [][op' = "enableControl" /\ panorama # None =>
         LET p == positionOf(panorama)
         IN CASE controls[control'] = "orbit" ->
                   cameraPosition' = OffsetZ(p) /\ orbitTarget' = p
              [] controls[control'] = "device-orientation" ->
                   cameraPosition' = p
              [] OTHER -> UNCHANGED <<cameraPosition, orbitTarget>>]_vars

\* C16: when the current panorama, added through add, emits enter-start,
\* the camera pose applied is the one of the scheme active at that moment:
\* with orbit active the camera is at the panorama position offset by 1
\* along z and the orbit target is the panorama position; with
\* device-orientation active the camera is exactly at the panorama position.
C16_EnterStartPose ==
    [][op' = "enter-start" /\ arg' = panorama /\ arg' \in enterStartListeners =>
         LET p == positionOf(panorama)
         IN CASE controls[control] = "orbit" ->
                   cameraPosition' = OffsetZ(p) /\ orbitTarget' = p
              [] controls[control] = "device-orientation" ->
                   cameraPosition' = p
              [] OTHER -> TRUE]_vars

\* The number of calls of `method` the last handler made.
CallCount(method) == Cardinality({i \in DOMAIN calls : calls[i].method = method})

\* C17: a processed up classified as click over a marker calls the marker's
\* onClick exactly once and performs no auto-hide effect (toggle of the
\* panorama's children visibility, control-bar toggle); a processed click
\* that no marker consumed performs each enabled auto-hide effect exactly
\* once; a processed up that is not a click performs no auto-hide effect and
\* calls no onClick.
C17_ClickConsumedOrAutoHide ==
    op = "up" /\ Tapped =>
        IF upType = "click"
        THEN IF raycast # <<>> /\ raycast[1] \in Markers
             THEN /\ CallCount("onClick") = 1
                  /\ \E i \in DOMAIN calls : calls[i] = Call(raycast[1], "onClick")
                  /\ CallCount("toggleChildrenVisibility") = 0
                  /\ CallCount("toggleControlBar") = 0
                  /\ ~threw
             ELSE /\ CallCount("onClick") = 0
                  /\ CallCount("toggleChildrenVisibility")
                        = (IF options.autoHideInfospot THEN 1 ELSE 0)
                  /\ CallCount("toggleControlBar")
                        = (IF options.autoHideControlBar THEN 1 ELSE 0)
                  /\ ~threw
        ELSE /\ CallCount("onClick") = 0
             /\ CallCount("toggleChildrenVisibility") = 0
             /\ CallCount("toggleControlBar") = 0
             /\ ~threw

\* C18: at a processed pointer event at which no marker is the nearest
\* intersection, onHoverEnd is called exactly once on every marker whose
\* onHover was called and whose onHoverEnd was not called since, on no
\* other marker, and the cursor becomes the default one; this for any path
\* of the pointer, also over other markers in between.
C18_HoverEndOnMarkerFree ==
    [][Tapped' /\ (raycast' = <<>> \/ raycast'[1] \notin Markers) =>
         /\ \A m \in Markers :
               Cardinality({i \in DOMAIN calls' : calls'[i] = Call(m, "onHoverEnd")})
                  = (IF m \in hoverOpen THEN 1 ELSE 0)
         /\ cursor' = "default"]_vars

IsCallbackCall(c) == c.method = "call"

\* The calls a tick makes when every registration of the list at the start
\* of the tick gets its turn in order unless it was unregistered before:
\* `removed` holds the positions of `snapshot` unregistered so far.
RECURSIVE TurnsFrom(_, _, _, _, _)
TurnsFrom(snapshot, k, removed, does, log) ==
    IF k > Len(snapshot) THEN log
    ELSE IF k \in removed THEN TurnsFrom(snapshot, k + 1, removed, does, log)
    ELSE LET at == {i \in DOMAIN snapshot : snapshot[i] = does[snapshot[k]] /\ i \notin removed}
             gone == IF at = {} THEN removed
                     ELSE removed \cup {CHOOSE i \in at : \A j \in at : i <= j}
         IN TurnsFrom(snapshot, k + 1, gone, does, Append(log, Call(snapshot[k], "call")))

\* C19: in every tick, every callback registered when the tick starts and
\* not unregistered before its turn is called exactly once, in registration
\* order, after the tween update and before the update of the active
\* control and the render request, also when a callback unregisters itself
\* or another callback during the tick.
C19_EveryCallbackOnce ==
    [][op' = "render" =>
         /\ SelectSeq(calls', IsCallbackCall)
               = TurnsFrom(updateCallbacks, 1, {}, arg'.does, <<>>)
         /\ calls'[1] = Call("TWEEN", "update")
         /\ \A i, j \in DOMAIN calls' :
               IsCallbackCall(calls'[i]) /\ calls'[j].method \in {"update", "render"}
                  /\ j > 1 => i < j]_vars

PressTypes ==
    {"pressstart", "pressstart-entity", "pressmove", "pressmove-entity",
     "pressstop", "pressstop-entity"}

LifecycleBalanced ==
    /\ panorama \in Panoramas \cup {None}
    /\ \A p \in Panoramas : enterBalance[p] = (IF p = panorama THEN 1 ELSE 0)

\* C21: after any sequence of add and setPanorama calls, also setPanorama
\* on the current panorama and on objects that are no panorama, at most one
\* panorama is current and for every panorama the number of its onEnter()
\* calls minus the number of its onLeave() calls is 1 if it is current and 0
\* otherwise; once a panorama is current, the current panorama is never
\* empty again.
C21_LifecycleBalance ==
    /\ []LifecycleBalanced
    /\ [][panorama # None => panorama' # None]_vars

\* C21 witness: setPanorama on the panorama that is already current, after
\* a switch from another one: it is left and entered again.
C21_Witness ==
    /\ op = "setPanorama"
    /\ arg = "P2"
    /\ panorama = "P2"
    /\ calls = <<Call("P2", "onLeave"), Call("P2", "onEnter")>>
    /\ enterBalance["P1"] = 0
    /\ enterBalance["P2"] = 1
    /\ "P1" \in sceneChildren

=============================================================================
